---------------------------- MODULE Spec2Model ----------------------------
(***************************************************************************)
(* A model of the gxcore codec (crate cyphersolbase): alphabet derivation  *)
(* from a seed, encode (compress, checksum, base64, substitute), decode    *)
(* (substitute back, base64, checksum, decompress), the keyless            *)
(* partial_verify, and the compression selector of the HTTP handlers.      *)
(*                                                                         *)
(* Bytes are the integers 0..255 and a byte string is a sequence of them.  *)
(* A u32 is a pair <<hi, lo>> of 16-bit halves, because the integers of    *)
(* the model checker stop at 2^31 - 1.  The library routines the code      *)
(* calls (SHA-256, CRC-32, base64 STANDARD, the LZ4 block format) are      *)
(* written out by what they compute.                                       *)
(***************************************************************************)
EXTENDS Integers, Sequences, FiniteSets, TLC

(***************************************************************************)
(* Bounds of the model.                                                    *)
(***************************************************************************)
\* the seeds derive_alphabet is followed on are the byte strings over
\* SeedBytes of at most this length
MaxSeedLen == 2
\* data are the byte strings over DataBytes of at most this length
MaxLen == 3
\* the data whose encoded text is tampered with are at most this long
MaxTamperLen == 1
\* the texts handed to decode and partial_verify from outside are the byte
\* strings over TextBytes of at most this length
MaxTextLen == 8
\* the data posted to the HTTP handlers are at most this long
MaxHttpLen == 1

(***************************************************************************)
(* 32-bit words as <<hi, lo>>, each half in 0..65535.                      *)
(***************************************************************************)
Half == 2 ^ 16

RECURSIVE BitXor(_, _, _)
BitXor(a, b, n) ==
    IF n = 0 THEN 0
    ELSE ((a + b) % 2) + 2 * BitXor(a \div 2, b \div 2, n - 1)

RECURSIVE BitAnd(_, _, _)
BitAnd(a, b, n) ==
    IF n = 0 THEN 0
    ELSE ((a % 2) * (b % 2)) + 2 * BitAnd(a \div 2, b \div 2, n - 1)

Xor32(x, y) == <<BitXor(x[1], y[1], 16), BitXor(x[2], y[2], 16)>>

And32(x, y) == <<BitAnd(x[1], y[1], 16), BitAnd(x[2], y[2], 16)>>

Not32(x) == <<(Half - 1) - x[1], (Half - 1) - x[2]>>

\* wrapping_add
Add32(x, y) ==
    LET lo == x[2] + y[2]
        hi == x[1] + y[1] + (lo \div Half)
    IN  <<hi % Half, lo % Half>>

\* x >> n, for 0 <= n < 16
ShR32(x, n) ==
    LET p == 2 ^ n
        q == 2 ^ (16 - n)
    IN  <<x[1] \div p, (x[2] \div p) + (x[1] % p) * q>>

\* x.rotate_right(n), for 0 <= n < 32
RotR32(x, n) ==
    LET y == IF n >= 16 THEN <<x[2], x[1]>> ELSE x
        m == n % 16
        p == 2 ^ m
        q == 2 ^ (16 - m)
    IN  IF m = 0 THEN y
        ELSE <<(y[1] \div p) + (y[2] % p) * q, (y[2] \div p) + (y[1] % p) * q>>

(***************************************************************************)
(* SHA-256 (FIPS 180-4), the digest derive_alphabet takes of the seed.     *)
(***************************************************************************)
Sha256K ==
  << <<17034, 12184>>, <<28983, 17553>>, <<46528, 64463>>, <<59829, 56229>>,
     <<14678, 49755>>, <<23025, 4593>>, <<37439, 33444>>, <<43804, 24277>>,
     <<55303, 43672>>, <<4739, 23297>>, <<9265, 34238>>, <<21772, 32195>>,
     <<29374, 23924>>, <<32990, 45566>>, <<39900, 1703>>, <<49563, 61812>>,
     <<58523, 27073>>, <<61374, 18310>>, <<4033, 40390>>, <<9228, 41420>>,
     <<11753, 11375>>, <<19060, 33962>>, <<23728, 43484>>, <<30457, 35034>>,
     <<38974, 20818>>, <<43057, 50797>>, <<45059, 10184>>, <<48985, 32711>>,
     <<50912, 3059>>, <<54695, 37191>>, <<1738, 25425>>, <<5161, 10599>>,
     <<10167, 2693>>, <<11803, 8504>>, <<19756, 28156>>, <<21304, 3347>>,
     <<25866, 29524>>, <<30314, 2747>>, <<33218, 51502>>, <<37490, 11397>>,
     <<41663, 59553>>, <<43034, 26187>>, <<49739, 35696>>, <<51052, 20899>>,
     <<53650, 59417>>, <<54937, 1572>>, <<62478, 13701>>, <<4202, 41072>>,
     <<6564, 49430>>, <<7735, 27656>>, <<10056, 30540>>, <<13488, 48309>>,
     <<14620, 3251>>, <<20184, 43594>>, <<23452, 51791>>, <<26670, 28659>>,
     <<29839, 33518>>, <<30885, 25455>>, <<33992, 30740>>, <<36039, 520>>,
     <<37054, 65530>>, <<42064, 27883>>, <<48889, 41975>>, <<50801, 30962>> >>

Sha256H0 ==
  << <<27145, 58983>>, <<47975, 44677>>, <<15470, 62322>>, <<42319, 62778>>,
     <<20750, 21119>>, <<39685, 26764>>, <<8067, 55723>>, <<23520, 52505>> >>

BigSigma0(x) == Xor32(Xor32(RotR32(x, 2), RotR32(x, 13)), RotR32(x, 22))
BigSigma1(x) == Xor32(Xor32(RotR32(x, 6), RotR32(x, 11)), RotR32(x, 25))
SmallSigma0(x) == Xor32(Xor32(RotR32(x, 7), RotR32(x, 18)), ShR32(x, 3))
SmallSigma1(x) == Xor32(Xor32(RotR32(x, 17), RotR32(x, 19)), ShR32(x, 10))
Ch(x, y, z) == Xor32(And32(x, y), And32(Not32(x), z))
Maj(x, y, z) == Xor32(Xor32(And32(x, y), And32(x, z)), And32(y, z))

RECURSIVE Zeros(_)
Zeros(n) == IF n <= 0 THEN <<>> ELSE <<0>> \o Zeros(n - 1)

\* the message, 0x80, zeros up to 56 mod 64, the bit length as 8 bytes
\* big-endian (messages here are far shorter than 2^13 bytes)
Sha256Pad(msg) ==
    LET len  == Len(msg)
        bits == len * 8
        fill == (64 - ((len + 9) % 64)) % 64
    IN  msg \o <<128>> \o Zeros(fill) \o
        <<0, 0, 0, 0, 0, 0, bits \div 256, bits % 256>>

\* the t-th (1-based) big-endian word of a 64-byte block
BlockWord(blk, t) ==
    <<blk[4 * t - 3] * 256 + blk[4 * t - 2], blk[4 * t - 1] * 256 + blk[4 * t]>>

RECURSIVE Sha256Schedule(_)
Sha256Schedule(w) ==
    IF Len(w) = 64 THEN w
    ELSE LET t == Len(w) + 1
         IN  Sha256Schedule(Append(w,
                 Add32(Add32(SmallSigma1(w[t - 2]), w[t - 7]),
                       Add32(SmallSigma0(w[t - 15]), w[t - 16]))))

\* st is the eight working variables a..h; taking its length first makes the
\* round's result a value before the next round starts
RECURSIVE Sha256Rounds(_, _, _)
Sha256Rounds(st, w, t) ==
    IF Len(st) # 8 \/ t > 64 THEN st
    ELSE LET t1 == Add32(Add32(Add32(st[8], BigSigma1(st[5])),
                               Add32(Ch(st[5], st[6], st[7]), Sha256K[t])),
                         w[t])
             t2 == Add32(BigSigma0(st[1]), Maj(st[1], st[2], st[3]))
         IN  Sha256Rounds(<<Add32(t1, t2), st[1], st[2], st[3],
                            Add32(st[4], t1), st[5], st[6], st[7]>>, w, t + 1)

Sha256Block(h, blk) ==
    LET w  == Sha256Schedule([t \in 1..16 |-> BlockWord(blk, t)])
        st == Sha256Rounds(h, w, 1)
    IN  [k \in 1..8 |-> Add32(h[k], st[k])]

RECURSIVE Sha256Blocks(_, _)
Sha256Blocks(h, padded) ==
    IF Len(padded) = 0 THEN h
    ELSE Sha256Blocks(Sha256Block(h, SubSeq(padded, 1, 64)),
                      SubSeq(padded, 65, Len(padded)))

\* the digest, an array of 32 bytes indexed from 0: the eight state words,
\* big-endian
Sha256(msg) ==
    LET h == Sha256Blocks(Sha256H0, Sha256Pad(msg))
    IN  [k \in 0..31 |->
            LET wd == h[(k \div 4) + 1]
                r  == k % 4
            IN  IF r = 0 THEN wd[1] \div 256
                ELSE IF r = 1 THEN wd[1] % 256
                ELSE IF r = 2 THEN wd[2] \div 256
                ELSE wd[2] % 256]


(***************************************************************************)
(* CRC-32 (IEEE 802.3, reflected, polynomial 0xEDB88320), what             *)
(* crc32fast::Hasher computes: new(), update(bytes), finalize().           *)
(***************************************************************************)
CrcPoly == <<60856, 33568>>

RECURSIVE CrcShift(_, _)
CrcShift(c, n) ==
    IF n = 0 THEN c
    ELSE CrcShift(IF c[2] % 2 = 1 THEN Xor32(ShR32(c, 1), CrcPoly)
                  ELSE ShR32(c, 1), n - 1)

\* the byte-indexed table of the table-driven algorithm
CrcTable == <<>> \o [b \in 1..256 |-> CrcShift(<<0, b - 1>>, 8)]

RECURSIVE CrcUpdate(_, _, _)
CrcUpdate(c, bytes, k) ==
    IF Len(c) # 2 \/ k > Len(bytes) THEN c
    ELSE CrcUpdate(Xor32(ShR32(c, 8),
                         CrcTable[BitXor(c[2] % 256, bytes[k], 8) + 1]),
                   bytes, k + 1)

crc32(bytes) == Not32(CrcUpdate(<<Half - 1, Half - 1>>, bytes, 1))

\* u32::to_le_bytes and u32::from_le_bytes
to_le_bytes(x) == <<x[2] % 256, x[2] \div 256, x[1] % 256, x[1] \div 256>>

from_le_bytes(b) == <<b[4] * 256 + b[3], b[2] * 256 + b[1]>>

(***************************************************************************)
(* The canonical alphabet and the padding byte.                            *)
(***************************************************************************)
BASE64_ALPHABET ==
    [k \in 0..63 |->
        IF k < 26 THEN 65 + k
        ELSE IF k < 52 THEN 97 + (k - 26)
        ELSE IF k < 62 THEN 48 + (k - 52)
        ELSE IF k = 62 THEN 43 ELSE 47]

PAD == 61

\* arr.iter().position(|&c| c == b): the first index holding b, -1 for None
Position(arr, b) ==
    IF \E k \in DOMAIN arr : arr[k] = b
    THEN CHOOSE k \in DOMAIN arr :
             arr[k] = b /\ \A m \in DOMAIN arr : m < k => arr[m] # b
    ELSE -1

(***************************************************************************)
(* base64 general_purpose::STANDARD: canonical alphabet, padding written   *)
(* on encode and required canonical on decode, trailing bits refused.      *)
(***************************************************************************)
\* the four symbols (or symbols and padding) of one group of 1..3 bytes
B64Group(g) ==
    LET b1 == g[1]
        b2 == IF Len(g) >= 2 THEN g[2] ELSE 0
        b3 == IF Len(g) >= 3 THEN g[3] ELSE 0
        s1 == BASE64_ALPHABET[b1 \div 4]
        s2 == BASE64_ALPHABET[(b1 % 4) * 16 + (b2 \div 16)]
        s3 == BASE64_ALPHABET[(b2 % 16) * 4 + (b3 \div 64)]
        s4 == BASE64_ALPHABET[b3 % 64]
    IN  IF Len(g) = 1 THEN <<s1, s2, PAD, PAD>>
        ELSE IF Len(g) = 2 THEN <<s1, s2, s3, PAD>>
        ELSE <<s1, s2, s3, s4>>

RECURSIVE B64Encode(_)
B64Encode(bytes) ==
    IF Len(bytes) = 0 THEN <<>>
    ELSE IF Len(bytes) <= 3 THEN B64Group(bytes)
    ELSE B64Group(SubSeq(bytes, 1, 3)) \o B64Encode(SubSeq(bytes, 4, Len(bytes)))

\* the bytes of one quad of 6-bit values; `n` of them are kept
B64Quad(v, n) ==
    LET b1 == v[1] * 4 + (v[2] \div 16)
        b2 == (v[2] % 16) * 16 + (v[3] \div 4)
        b3 == (v[3] % 4) * 64 + v[4]
    IN  SubSeq(<<b1, b2, b3>>, 1, n)

RECURSIVE B64Quads(_, _)
B64Quads(vals, k) ==
    IF k > Len(vals) THEN <<>>
    ELSE LET left == Len(vals) - k + 1
         IN  IF left >= 4
             THEN B64Quad(SubSeq(vals, k, k + 3), 3) \o B64Quads(vals, k + 4)
             ELSE IF left = 3
             THEN B64Quad(<<vals[k], vals[k + 1], vals[k + 2], 0>>, 2)
             ELSE B64Quad(<<vals[k], vals[k + 1], 0, 0>>, 1)

\* an engine built with decode_allow_trailing_bits(true)
B64DecodeAllowTrailingBits(t) ==
    LET n    == Len(t)
        pad  == IF n >= 2 /\ t[n] = PAD /\ t[n - 1] = PAD THEN 2
                ELSE IF n >= 1 /\ t[n] = PAD THEN 1 ELSE 0
        m    == n - pad
        vals == [k \in 1..m |-> Position(BASE64_ALPHABET, t[k])]
        bad  == \/ n % 4 # 0
                \/ \E k \in 1..m : vals[k] = -1
    IN  IF bad THEN [ok |-> FALSE, bytes |-> <<>>]
        ELSE [ok |-> TRUE, bytes |-> B64Quads(vals, 1)]

\* STANDARD.decode: [ok, bytes].  Accepted are the texts whose length is a
\* multiple of 4, made of alphabet symbols followed by at most two padding
\* bytes closing the last quad, the last symbol carrying no bits beyond the
\* last whole byte.
B64Decode(t) ==
    LET n    == Len(t)
        pad  == IF n >= 2 /\ t[n] = PAD /\ t[n - 1] = PAD THEN 2
                ELSE IF n >= 1 /\ t[n] = PAD THEN 1 ELSE 0
        m    == n - pad
        vals == [k \in 1..m |-> Position(BASE64_ALPHABET, t[k])]
        bad  == \/ n % 4 # 0
                \/ \E k \in 1..m : vals[k] = -1
                \/ pad = 2 /\ vals[m] % 16 # 0
                \/ pad = 1 /\ vals[m] % 4 # 0
    IN  IF bad THEN [ok |-> FALSE, bytes |-> <<>>]
        ELSE [ok |-> TRUE, bytes |-> B64Quads(vals, 1)]


(***************************************************************************)
(* lz4::block::compress(src, None, true) and decompress(src, None): an LZ4 *)
(* block behind the source length as 4 little-endian bytes.                *)
(***************************************************************************)
\* Inputs shorter than 13 bytes (LZ4_minLength) leave LZ4_compress_default
\* as one run of literals: token (length << 4), then the bytes.  The model
\* keeps its data shorter than that.
Lz4Compress(src) ==
    LET n == Len(src)
    IN  <<n % 256, (n \div 256) % 256, (n \div 65536) % 256, n \div (2 ^ 24)>>
            \o <<n * 16>> \o src

Lz4Fail == [ok |-> FALSE, out |-> <<>>]

\* a length nibble of 15 is extended by the following bytes, up to and
\* including the first that is not 255
RECURSIVE Lz4ReadLen(_, _, _)
Lz4ReadLen(src, ip, acc) ==
    IF ip > Len(src) THEN [ok |-> FALSE, len |-> 0, ip |-> ip]
    ELSE IF src[ip] = 255 THEN Lz4ReadLen(src, ip + 1, acc + 255)
    ELSE [ok |-> TRUE, len |-> acc + src[ip], ip |-> ip + 1]

\* an overlapping copy of mlen bytes from offset bytes back (the output
\* buffer is zeroed, which is what an offset of 0 reads)
RECURSIVE Lz4CopyMatch(_, _, _)
Lz4CopyMatch(out, offset, mlen) ==
    IF mlen = 0 THEN out
    ELSE Lz4CopyMatch(
             Append(out, IF offset = 0 THEN 0 ELSE out[Len(out) - offset + 1]),
             offset, mlen - 1)

\* LZ4_decompress_safe from the token at src[ip], `out` written so far, into
\* a buffer of cap bytes.  A run of literals that ends within 8 bytes of the
\* end of the input, or within 12 bytes of the end of the buffer, must be
\* the last: it has to end the input exactly and fit the buffer.
RECURSIVE Lz4Sequences(_, _, _, _)
Lz4Sequences(src, ip, out, cap) ==
    IF ip > Len(src) THEN Lz4Fail
    ELSE
    LET token == src[ip]
        lit   == IF token \div 16 = 15
                 THEN IF ip + 1 >= Len(src) + 1 - 15
                      THEN [ok |-> FALSE, len |-> 0, ip |-> ip]
                      ELSE Lz4ReadLen(src, ip + 1, 15)
                 ELSE [ok |-> TRUE, len |-> token \div 16, ip |-> ip + 1]
        lend  == lit.ip + lit.len
        iend  == Len(src) + 1
    IN  IF ~lit.ok THEN Lz4Fail
        ELSE IF Len(out) + lit.len > cap - 12 \/ lend > iend - 8
        THEN IF lend = iend /\ Len(out) + lit.len <= cap
             THEN [ok |-> TRUE, out |-> out \o SubSeq(src, lit.ip, lend - 1)]
             ELSE Lz4Fail
        ELSE
        LET out1   == out \o SubSeq(src, lit.ip, lend - 1)
            offset == src[lend] + 256 * src[lend + 1]
            ml     == IF token % 16 = 15
                      THEN Lz4ReadLen(src, lend + 2, 15)
                      ELSE [ok |-> TRUE, len |-> token % 16, ip |-> lend + 2]
            mlen   == ml.len + 4
        IN  IF \/ ~ml.ok
               \/ offset > Len(out1)
               \/ Len(out1) + mlen > cap - 5
            THEN Lz4Fail
            ELSE Lz4Sequences(src, ml.ip, Lz4CopyMatch(out1, offset, mlen), cap)

LZ4_MAX_INPUT_SIZE == 126 * (2 ^ 24)

\* [ok, out]
Lz4Decompress(src) ==
    IF Len(src) < 4 THEN Lz4Fail
    ELSE IF src[4] >= 128 THEN Lz4Fail
    ELSE
    LET size == src[1] + 256 * src[2] + 65536 * src[3] + (2 ^ 24) * src[4]
        blk  == SubSeq(src, 5, Len(src))
    IN  IF size > LZ4_MAX_INPUT_SIZE THEN Lz4Fail
        ELSE IF size = 0
        THEN IF Len(blk) = 1 /\ blk[1] = 0
             THEN [ok |-> TRUE, out |-> <<>>] ELSE Lz4Fail
        ELSE IF Len(blk) = 0 THEN Lz4Fail
        ELSE Lz4Sequences(blk, 1, <<>>, size)


(***************************************************************************)
(* The inputs of the model.                                                *)
(***************************************************************************)
RECURSIVE SeqsUpTo(_, _)
SeqsUpTo(S, n) ==
    IF n = 0 THEN {<<>>}
    ELSE LET shorter == SeqsUpTo(S, n - 1)
         IN  shorter \cup {Append(q, b) : q \in shorter, b \in S}

\* "a" and "k"
SeedBytes == {97, 107}

Seeds == SeqsUpTo(SeedBytes, MaxSeedLen)

\* the seeds of the codec calls: "", "a" and "k"
CodecSeeds == {<<>>, <<97>>, <<107>>}

CompressionAlgorithm == {"None", "Huffman", "Lz4", "Brotli"}

(***************************************************************************)
(* derive_alphabet                                                         *)
(***************************************************************************)
\* hasher.update(seed); hasher.finalize(), taken once per seed of the model
Sha256Of == [s \in Seeds \cup CodecSeeds |-> Sha256(s)]

\* a swap that loses arr[i]: arr[j] is written over it and never replaced
SwapLossy(arr, i, j) == [arr EXCEPT ![i] = arr[j]]

\* slice::swap
Swap(arr, i, j) == [arr EXCEPT ![i] = arr[j], ![j] = arr[i]]

\* one turn of the loop: alphabet.swap(i, swap_idx)
SwapStep(arr, hash, i) ==
    LET swap_idx == (hash[i % 32] + i) % 64
    IN  Swap(arr, i, swap_idx)

\* for i in 0..64
RECURSIVE SwapLoop(_, _, _)
SwapLoop(arr, hash, i) ==
    IF i \notin DOMAIN arr THEN arr
    ELSE SwapLoop(SwapStep(arr, hash, i), hash, i + 1)

derive_alphabet(s) == SwapLoop(BASE64_ALPHABET, Sha256Of[s], 0)

(***************************************************************************)
(* encode                                                                  *)
(***************************************************************************)
\* the block without its length in front (prepend_size = false)
CompressNoSize(d, compression) ==
    CASE compression = "None"    -> d
      [] compression = "Lz4"     -> <<Len(d) * 16>> \o d
      [] compression = "Brotli"  -> d
      [] compression = "Huffman" -> d

\* the Brotli arm doing the work of the Lz4 arm
CompressBrotliAsLz4(d, compression) ==
    CASE compression = "None"    -> d
      [] compression = "Lz4"     -> Lz4Compress(d)
      [] compression = "Brotli"  -> Lz4Compress(d)
      [] compression = "Huffman" -> d

\* the match on `compression` of encode
Compress(d, compression) ==
    CASE compression = "None"    -> d
      [] compression = "Lz4"     -> Lz4Compress(d)
      [] compression = "Brotli"  -> d
      [] compression = "Huffman" -> d

\* the checksum appended most significant byte first (to_be_bytes)
AppendChecksumBigEndian(processed_data) ==
    LET le == to_le_bytes(crc32(processed_data))
    IN  processed_data \o <<le[4], le[3], le[2], le[1]>>

\* processed_data.extend_from_slice(&checksum.to_le_bytes())
AppendChecksum(processed_data) ==
    processed_data \o to_le_bytes(crc32(processed_data))

\* the loop replacing each symbol by the one of the custom alphabet
RECURSIVE EncodeSubstitute(_, _, _)
EncodeSubstitute(encoded, arr, result) ==
    IF Len(result) = Len(encoded) THEN result
    ELSE LET b == encoded[Len(result) + 1]
         IN  EncodeSubstitute(encoded, arr,
                 IF b = PAD THEN Append(result, PAD)
                 ELSE Append(result, arr[Position(BASE64_ALPHABET, b)]))

encode(d, s, compression) ==
    LET arr            == derive_alphabet(s)
        processed_data == AppendChecksum(Compress(d, compression))
        encoded        == B64Encode(processed_data)
    IN  EncodeSubstitute(encoded, arr, <<>>)

(***************************************************************************)
(* decode                                                                  *)
(***************************************************************************)
Ok(v) == [ok |-> TRUE, value |-> v, err |-> ""]
Err(e) == [ok |-> FALSE, value |-> <<>>, err |-> e]

\* the loop mapping back to standard base64 without its branch for '=':
\* the padding is looked up in the alphabet like any other byte
RECURSIVE DecodeSubstituteNoPad(_, _, _)
DecodeSubstituteNoPad(encoded, arr, standard_encoded) ==
    IF Len(standard_encoded) = Len(encoded)
    THEN [ok |-> TRUE, text |-> standard_encoded]
    ELSE LET b   == encoded[Len(standard_encoded) + 1]
             idx == Position(arr, b)
         IN  IF idx = -1 THEN [ok |-> FALSE, text |-> <<>>]
             ELSE DecodeSubstituteNoPad(encoded, arr,
                      Append(standard_encoded, BASE64_ALPHABET[idx]))

\* the loop mapping back to standard base64; position(..).ok_or(..)? leaves
\* at the first byte that is not in the alphabet
RECURSIVE DecodeSubstitute(_, _, _)
DecodeSubstitute(encoded, arr, standard_encoded) ==
    IF Len(standard_encoded) = Len(encoded)
    THEN [ok |-> TRUE, text |-> standard_encoded]
    ELSE LET b   == encoded[Len(standard_encoded) + 1]
             idx == Position(arr, b)
         IN  IF b = PAD
             THEN DecodeSubstitute(encoded, arr, Append(standard_encoded, PAD))
             ELSE IF idx = -1 THEN [ok |-> FALSE, text |-> <<>>]
             ELSE DecodeSubstitute(encoded, arr,
                      Append(standard_encoded, BASE64_ALPHABET[idx]))

\* the match on `compression` of decode
Decompress(payload, compression) ==
    CASE compression = "None"    -> Ok(payload)
      [] compression = "Lz4"     ->
            LET r == Lz4Decompress(payload)
            IN  IF r.ok THEN Ok(r.out) ELSE Err("Decompression LZ4 failed")
      [] compression = "Brotli"  -> Ok(payload)
      [] compression = "Huffman" -> Ok(payload)

\* the tail of decode with the decompression moved before the checksum
UnframeDecompressFirst(decoded, compression) ==
    IF Len(decoded) < 4 THEN Err("Data too short")
    ELSE
    LET data_len          == Len(decoded) - 4
        payload           == SubSeq(decoded, 1, data_len)
        checksum_bytes    == SubSeq(decoded, data_len + 1, Len(decoded))
        expected_checksum == from_le_bytes(checksum_bytes)
        r                 == Decompress(payload, compression)
    IN  IF ~r.ok THEN r
        ELSE IF crc32(payload) # expected_checksum THEN Err("Checksum mismatch")
        ELSE r

\* the tail of decode, from the decoded buffer on
Unframe(decoded, compression) ==
    IF Len(decoded) < 4 THEN Err("Data too short")
    ELSE
    LET data_len          == Len(decoded) - 4
        payload           == SubSeq(decoded, 1, data_len)
        checksum_bytes    == SubSeq(decoded, data_len + 1, Len(decoded))
        expected_checksum == from_le_bytes(checksum_bytes)
    IN  IF crc32(payload) # expected_checksum THEN Err("Checksum mismatch")
        ELSE Decompress(payload, compression)

decode(encoded, s, compression) ==
    LET arr == derive_alphabet(s)
        sub == DecodeSubstitute(encoded, arr, <<>>)
        dec == B64Decode(sub.text)
    IN  IF ~sub.ok THEN Err("Invalid character")
        ELSE IF ~dec.ok THEN Err("Invalid base64")
        ELSE Unframe(dec.bytes, compression)

(***************************************************************************)
(* partial_verify                                                          *)
(***************************************************************************)
\* the loop of partial_verify dropping the bytes it does not know
RECURSIVE VerifySubstituteSkip(_, _, _)
VerifySubstituteSkip(encoded, arr, standard_encoded) ==
    IF encoded = <<>> THEN standard_encoded
    ELSE LET b   == Head(encoded)
             pos == Position(arr, b)
         IN  VerifySubstituteSkip(Tail(encoded), arr,
                 IF b = PAD THEN Append(standard_encoded, PAD)
                 ELSE IF pos = -1 THEN standard_encoded
                 ELSE Append(standard_encoded, BASE64_ALPHABET[pos]))

\* the loop of partial_verify: position(..).ok_or(()).unwrap_or(0)
RECURSIVE VerifySubstitute(_, _, _)
VerifySubstitute(encoded, arr, standard_encoded) ==
    IF Len(standard_encoded) = Len(encoded) THEN standard_encoded
    ELSE LET b   == encoded[Len(standard_encoded) + 1]
             pos == Position(arr, b)
             idx == IF pos = -1 THEN 0 ELSE pos
         IN  VerifySubstitute(encoded, arr,
                 IF b = PAD THEN Append(standard_encoded, PAD)
                 ELSE Append(standard_encoded, BASE64_ALPHABET[idx]))

\* partial_verify content with a buffer that decodes, its checksum unread
partial_verify_unchecked(encoded) ==
    LET dec == B64Decode(VerifySubstitute(encoded, BASE64_ALPHABET, <<>>))
    IN  dec.ok /\ Len(dec.bytes) >= 4

\* TRUE or FALSE; "panic" where try_into().unwrap() would not get 4 bytes
partial_verify(encoded) ==
    LET arr              == BASE64_ALPHABET
        standard_encoded == VerifySubstitute(encoded, arr, <<>>)
        dec              == B64Decode(standard_encoded)
    IN  IF dec.ok /\ Len(dec.bytes) >= 4
        THEN LET data_len       == Len(dec.bytes) - 4
                 payload        == SubSeq(dec.bytes, 1, data_len)
                 checksum_bytes == SubSeq(dec.bytes, data_len + 1, Len(dec.bytes))
             IN  IF Len(checksum_bytes) # 4 THEN "panic"
                 ELSE crc32(payload) = from_le_bytes(checksum_bytes)
        ELSE FALSE


(***************************************************************************)
(* The HTTP handlers' choice of the algorithm (api.rs).                    *)
(***************************************************************************)
\* the match on payload.compression.as_str(); "rejected" is the arm
\* returning Err(StatusCode::BAD_REQUEST)
EncodeCompression(str) ==
    CASE str = "none"   -> "None"
      [] str = "lz4"    -> "Lz4"
      [] str = "brotli" -> "Brotli"
      [] OTHER          -> "rejected"

DecodeCompression(str) ==
    CASE str = "none"   -> "None"
      [] str = "lz4"    -> "Lz4"
      [] str = "brotli" -> "Brotli"
      [] OTHER          -> "rejected"

\* [status, body, calls]: the response and the codec calls made for it
encode_handler(payload) ==
    LET compression == EncodeCompression(payload.compression)
    IN  IF compression = "rejected"
        THEN [status |-> 400, body |-> <<>>, calls |-> <<>>]
        ELSE [status |-> 200,
              body   |-> encode(payload.data, payload.seed, compression),
              calls  |-> <<[fn |-> "encode", compression |-> compression]>>]

decode_handler(payload) ==
    LET compression == DecodeCompression(payload.compression)
        r           == decode(payload.data, payload.seed, compression)
    IN  IF compression = "rejected"
        THEN [status |-> 400, body |-> <<>>, calls |-> <<>>]
        ELSE [status |-> IF r.ok THEN 200 ELSE 400,
              body   |-> r.value,
              calls  |-> <<[fn |-> "decode", compression |-> compression]>>]

(***************************************************************************)
(* The state: one call of the library at a time.                           *)
(***************************************************************************)
VARIABLES
    phase,      \* where the run is
    seed,       \* the seed given to derive_alphabet / encode
    hash,       \* derive_alphabet: the digest of the seed
    i,          \* derive_alphabet: the loop index
    alphabet,   \* derive_alphabet: the array being permuted
    data,       \* encode's data
    alg,        \* encode's compression
    encoded,    \* what encode returned
    text,       \* the bytes handed to decode or partial_verify
    dseed,      \* decode's seed
    dalg,       \* decode's compression
    result,     \* what decode returned
    valid,      \* what partial_verify returned
    request,    \* the HTTP request being served
    response    \* the handler's response

deriveVars == <<hash, i, alphabet>>
codecVars  == <<data, alg, encoded, text, dseed, dalg, result, valid>>
httpVars   == <<request, response>>
vars       == <<phase, seed, deriveVars, codecVars, httpVars>>

DataBytes == {0, 16, 255}

\* "A", "=" and "!"
TextBytes == {65, 61, 33}

\* what a byte of an encoded text is replaced by: every symbol, the
\* padding, "!" and NUL
TamperBytes == {BASE64_ALPHABET[k] : k \in 0..63} \cup {61, 33, 0}

CompressionStrings == {"none", "huffman", "lz4", "brotli", "gzip", "NONE", ""}

NoResult   == Err("not called")
NoRequest  == [route |-> "", data |-> <<>>, seed |-> <<>>, compression |-> ""]
NoResponse == [status |-> 0, body |-> <<>>, calls |-> <<>>]

IdleDerive == hash = Sha256Of[<<>>] /\ i = 0 /\ alphabet = BASE64_ALPHABET
IdleCodec  ==
    /\ data = <<>> /\ alg = "None" /\ encoded = <<>> /\ text = <<>>
    /\ dseed = <<>> /\ dalg = "None" /\ result = NoResult /\ valid = FALSE
IdleHttp   == request = NoRequest /\ response = NoResponse

(***************************************************************************)
(* derive_alphabet, turn by turn.                                          *)
(***************************************************************************)
InitAlphabet ==
    /\ phase = "derive"
    /\ seed \in Seeds
    /\ hash = Sha256Of[seed]
    /\ i = 0
    /\ alphabet = BASE64_ALPHABET
    /\ IdleCodec /\ IdleHttp

SwapTurn ==
    /\ phase = "derive"
    /\ i < 64
    /\ alphabet' = SwapStep(alphabet, hash, i)
    /\ i' = i + 1
    /\ UNCHANGED <<phase, seed, hash, codecVars, httpVars>>

NextAlphabet == SwapTurn

SpecAlphabet == InitAlphabet /\ [][NextAlphabet]_vars

(***************************************************************************)
(* The codec: encode, then decode or partial_verify of a text.             *)
(***************************************************************************)
InitOf(D) ==
    /\ phase = "start"
    /\ seed \in CodecSeeds
    /\ data \in D
    /\ alg \in CompressionAlgorithm
    /\ encoded = <<>> /\ text = <<>>
    /\ dseed = <<>> /\ dalg = "None" /\ result = NoResult /\ valid = FALSE
    /\ IdleDerive /\ IdleHttp

EncodeCall ==
    /\ phase = "start"
    /\ encoded' = encode(data, seed, alg)
    /\ text' = encoded'
    /\ phase' = "encoded"
    /\ UNCHANGED <<seed, deriveVars, data, alg, dseed, dalg, result, valid, httpVars>>

\* one byte of the text is replaced by another on its way to decode
Tamper(p, b) ==
    /\ phase = "encoded"
    /\ b # text[p]
    /\ text' = [text EXCEPT ![p] = b]
    /\ phase' = "tampered"
    /\ UNCHANGED <<seed, deriveVars, data, alg, encoded, dseed, dalg, result, valid, httpVars>>

DecodeCall(s2, a2) ==
    /\ phase \in {"encoded", "tampered", "received"}
    /\ result' = decode(text, s2, a2)
    /\ dseed' = s2
    /\ dalg' = a2
    /\ phase' = "decoded"
    /\ UNCHANGED <<seed, deriveVars, data, alg, encoded, text, valid, httpVars>>

VerifyCall ==
    /\ phase \in {"encoded", "tampered", "received"}
    /\ valid' = partial_verify(text)
    /\ phase' = "verified"
    /\ UNCHANGED <<seed, deriveVars, data, alg, encoded, text, dseed, dalg, result, httpVars>>

Init == InitOf(SeqsUpTo(DataBytes, MaxLen))

Next ==
    \/ EncodeCall
    \/ \E s2 \in CodecSeeds, a2 \in CompressionAlgorithm : DecodeCall(s2, a2)
    \/ VerifyCall

Spec == Init /\ [][Next]_vars

\* a text of encode reaching decode, with the seed and algorithm of encode,
\* one byte changed
InitTamper == InitOf(SeqsUpTo(DataBytes, MaxTamperLen))

NextTamper ==
    \/ EncodeCall
    \/ \E p \in 1..Len(text), b \in TamperBytes : Tamper(p, b)
    \/ DecodeCall(seed, alg)

SpecTamper == InitTamper /\ [][NextTamper]_vars

\* any text reaching decode or partial_verify: one that comes from outside,
\* or one encode returned
Received ==
    /\ phase = "received"
    /\ text \in SeqsUpTo(TextBytes, MaxTextLen)
    /\ seed = <<>> /\ data = <<>> /\ alg = "None" /\ encoded = <<>>
    /\ dseed = <<>> /\ dalg = "None" /\ result = NoResult /\ valid = FALSE
    /\ IdleDerive /\ IdleHttp

InitInput == Received \/ InitTamper

NextInput ==
    \/ EncodeCall
    \/ \E s2 \in CodecSeeds, a2 \in CompressionAlgorithm : DecodeCall(s2, a2)
    \/ VerifyCall

SpecInput == InitInput /\ [][NextInput]_vars

(***************************************************************************)
(* The HTTP service: POST /encode, then POST /decode of what it returned.  *)
(***************************************************************************)
InitHttp ==
    /\ phase = "request"
    /\ \E d \in SeqsUpTo(DataBytes, MaxHttpLen), s \in CodecSeeds,
          c \in CompressionStrings :
           request = [route |-> "/encode", data |-> d, seed |-> s,
                      compression |-> c]
    /\ response = NoResponse
    /\ seed = <<>>
    /\ IdleDerive /\ IdleCodec

EncodeHandler ==
    /\ phase = "request"
    /\ request.route = "/encode"
    /\ response' = encode_handler(request)
    /\ phase' = "response"
    /\ UNCHANGED <<seed, deriveVars, codecVars, request>>

\* the client posts the encoded text back, naming a compression
PostDecode(c) ==
    /\ phase = "response"
    /\ request.route = "/encode"
    /\ response.status = 200
    /\ request' = [route |-> "/decode", data |-> response.body,
                   seed |-> request.seed, compression |-> c]
    /\ response' = NoResponse
    /\ phase' = "request"
    /\ UNCHANGED <<seed, deriveVars, codecVars>>

DecodeHandler ==
    /\ phase = "request"
    /\ request.route = "/decode"
    /\ response' = decode_handler(request)
    /\ phase' = "response"
    /\ UNCHANGED <<seed, deriveVars, codecVars, request>>

NextHttp ==
    \/ EncodeHandler
    \/ \E c \in CompressionStrings : PostDecode(c)
    \/ DecodeHandler

SpecHttp == InitHttp /\ [][NextHttp]_vars


(***************************************************************************)
(* Properties.                                                             *)
(***************************************************************************)
Symbols == {BASE64_ALPHABET[k] : k \in 0..63}

Range(arr) == {arr[k] : k \in DOMAIN arr}

\* the index of symbol b in a permuted alphabet
IndexIn(arr, b) == CHOOSE k \in DOMAIN arr : arr[k] = b

\* the canonical text and the framed buffer of (d, compression), whatever
\* the seed
FramedOf(d, compression) ==
    LET processed == Compress(d, compression)
    IN  processed \o to_le_bytes(crc32(processed))

\* a buffer of at least 4 bytes whose last four are the little-endian CRC-32
\* of the rest
ChecksumHolds(buf) ==
    /\ Len(buf) >= 4
    /\ from_le_bytes(SubSeq(buf, Len(buf) - 3, Len(buf)))
         = crc32(SubSeq(buf, 1, Len(buf) - 4))

\* C1: decoding what encode returned, with the seed and the algorithm of
\* encode, None or Lz4, succeeds and returns the data, the empty one included.
RoundTrip ==
    (phase = "decoded" /\ dseed = seed /\ dalg = alg /\ alg \in {"None", "Lz4"})
        => result = Ok(data)

RoundTripWitness ==
    /\ phase = "decoded" /\ dseed = seed /\ dalg = alg /\ alg = "Lz4"
    /\ Len(data) = 3 /\ result.ok /\ result.value = data

\* C2: before and after each of the 64 swaps the array is a permutation of
\* the 64 canonical symbols, no symbol twice and none missing, and the loop
\* ends on the alphabet derive_alphabet returns.
AlphabetBijection ==
    phase = "derive" =>
        /\ DOMAIN alphabet = 0..63
        /\ \A j, k \in 0..63 : j # k => alphabet[j] # alphabet[k]
        /\ \A b \in Symbols : \E k \in 0..63 : alphabet[k] = b
        /\ i = 64 => alphabet = derive_alphabet(seed)

AlphabetBijectionWitness ==
    /\ phase = "derive" /\ i = 64 /\ seed # <<>>
    /\ alphabet # BASE64_ALPHABET

\* C3: a text of encode with one byte replaced by a different one, decoded
\* with the seed and algorithm of encode, is refused with "Checksum
\* mismatch", "Invalid base64" or "Invalid character".
ChecksumDetection ==
    (phase = "decoded" /\ text # encoded /\ dseed = seed /\ dalg = alg) =>
        /\ ~result.ok
        /\ result.err \in {"Checksum mismatch", "Invalid base64",
                           "Invalid character"}

ChecksumDetectionWitness ==
    /\ phase = "decoded" /\ text # encoded /\ dseed = seed /\ dalg = alg
    /\ alg = "Lz4" /\ Len(data) = 1
    /\ result.err = "Checksum mismatch"

PartialVerifyTotal ==
    phase = "verified" =>
        LET read == [k \in 1..Len(text) |->
                        IF text[k] = PAD \/ text[k] \in Symbols THEN text[k]
                        ELSE BASE64_ALPHABET[0]]
            dec  == B64Decode(read)
        IN  /\ valid \in BOOLEAN
            /\ (~dec.ok \/ Len(dec.bytes) < 4) => valid = FALSE
            /\ (dec.ok /\ Len(dec.bytes) >= 4) =>
                   valid = ChecksumHolds(dec.bytes)

PartialVerifyTotalWitness ==
    /\ phase = "verified" /\ valid = TRUE
    /\ \E k \in 1..Len(text) : text[k] \notin Symbols \cup {PAD}

\* C6: decode reports the first stage that fails, in the order
\* substitution, base64, length, checksum, decompression.
DecodeStageOrder ==
    phase = "decoded" =>
        LET arr     == derive_alphabet(dseed)
            unknown == \E k \in 1..Len(text) :
                           text[k] # PAD /\ text[k] \notin Range(arr)
            canon   == [k \in 1..Len(text) |->
                           IF text[k] = PAD THEN PAD
                           ELSE BASE64_ALPHABET[IndexIn(arr, text[k])]]
            dec     == B64Decode(canon)
        IN  IF unknown THEN result = Err("Invalid character")
            ELSE IF ~dec.ok THEN result = Err("Invalid base64")
            ELSE IF Len(dec.bytes) < 4 THEN result = Err("Data too short")
            ELSE IF ~ChecksumHolds(dec.bytes)
                 THEN result = Err("Checksum mismatch")
            ELSE result.ok \/ result = Err("Decompression LZ4 failed")

DecodeStageOrderWitness ==
    /\ phase = "decoded" /\ text = encoded /\ dseed = seed
    /\ Len(data) = 1 /\ dalg = "Lz4"
    /\ result = Err("Decompression LZ4 failed")

\* C7, as claimed: both handlers take "none", "huffman", "lz4" and "brotli",
\* each to its own variant, and answer any other string with 400 without
\* calling the codec.
HandlersRecognizeFour ==
    phase = "response" =>
        LET c  == request.compression
            fn == IF request.route = "/encode" THEN "encode" ELSE "decode"
            variant == CASE c = "none"    -> "None"
                         [] c = "huffman" -> "Huffman"
                         [] c = "lz4"     -> "Lz4"
                         [] c = "brotli"  -> "Brotli"
                         [] OTHER         -> "rejected"
        IN  IF variant = "rejected"
            THEN response.status = 400 /\ response.calls = <<>>
            ELSE response.calls = <<[fn |-> fn, compression |-> variant]>>

\* C8: what encode returns is the padded base64 text of the compressed data
\* followed by its CRC-32, least significant byte first, each symbol of
\* canonical index k replaced by the symbol k of the derived alphabet and
\* each "=" left where it is.
EncodeReference ==
    phase = "encoded" =>
        LET arr    == derive_alphabet(seed)
            framed == FramedOf(data, alg)
            b64    == B64Encode(framed)
            back   == B64Decode([k \in 1..Len(encoded) |->
                          IF encoded[k] = PAD THEN PAD
                          ELSE BASE64_ALPHABET[IndexIn(arr, encoded[k])]])
        IN  /\ Len(encoded) = Len(b64)
            /\ Len(encoded) = 4 * ((Len(framed) + 2) \div 3)
            /\ \A k \in 1..Len(encoded) :
                   /\ encoded[k] \in Range(arr) \cup {PAD}
                   /\ b64[k] = PAD => encoded[k] = PAD
                   /\ b64[k] # PAD =>
                          encoded[k] = arr[Position(BASE64_ALPHABET, b64[k])]
            /\ back.ok
            /\ ChecksumHolds(back.bytes)
            /\ SubSeq(back.bytes, 1, Len(back.bytes) - 4) = Compress(data, alg)

EncodeReferenceWitness ==
    /\ phase = "encoded" /\ alg = "Lz4" /\ Len(data) = 3
    /\ encoded[Len(encoded)] # PAD
    /\ encoded # B64Encode(FramedOf(data, alg))

\* C9, as claimed: decoding with a seed of another alphabet fails, when it
\* fails, with "Invalid character", "Data too short" or "Checksum mismatch".
WrongSeedStage ==
    (phase = "decoded" /\ text = encoded /\ dalg = alg /\ ~result.ok
        /\ derive_alphabet(dseed) # derive_alphabet(seed)) =>
        result.err \in {"Invalid character", "Data too short",
                        "Checksum mismatch"}

\* C9, amended: it fails, when it fails, with one of those or with "Invalid
\* base64", and not with "Decompression LZ4 failed".
WrongSeedStageOrBase64 ==
    (phase = "decoded" /\ text = encoded /\ dalg = alg /\ ~result.ok
        /\ derive_alphabet(dseed) # derive_alphabet(seed)) =>
        result.err \in {"Invalid character", "Invalid base64",
                        "Data too short", "Checksum mismatch"}

WrongSeedStageOrBase64Witness ==
    /\ phase = "decoded" /\ text = encoded /\ dalg = alg
    /\ derive_alphabet(dseed) # derive_alphabet(seed)
    /\ result = Err("Invalid base64")

\* C10: Brotli and Huffman encode and decode as None does, so that a text
\* encoded under one of the three decodes to the data under any of them.
Identity == {"None", "Brotli", "Huffman"}

ReservedIdentity ==
    /\ (phase = "encoded" /\ alg \in Identity) =>
           encoded = encode(data, seed, "None")
    /\ (phase = "decoded" /\ dalg \in Identity) =>
           result = decode(text, dseed, "None")
    /\ (phase = "decoded" /\ text = encoded /\ dseed = seed
           /\ alg \in Identity /\ dalg \in Identity) => result = Ok(data)

ReservedIdentityWitness ==
    /\ phase = "decoded" /\ text = encoded /\ dseed = seed
    /\ alg = "Brotli" /\ dalg = "Huffman"
    /\ Len(data) = 3 /\ result = Ok(data)

\* C11: decode returns "Invalid character" only for a text holding a byte
\* that is neither one of the 64 canonical symbols nor '='; on a text encode
\* returned it never does, whatever seed encoded it and whatever seed
\* decodes it.
Foreign(t) == {p \in 1..Len(t) : t[p] \notin Symbols \cup {PAD}}

NoInvalidCharacterOnEncoded ==
    /\ (phase = "decoded" /\ result = Err("Invalid character")) =>
           Foreign(text) # {}
    /\ (phase = "decoded" /\ text = encoded) =>
           result # Err("Invalid character")

NoInvalidCharacterOnEncodedWitness ==
    /\ phase = "decoded" /\ text = encoded /\ dalg = alg
    /\ derive_alphabet(dseed) # derive_alphabet(seed)
    /\ Len(data) = 1 /\ PAD \in Range(text)
    /\ ~result.ok /\ result.err \in {"Invalid base64", "Checksum mismatch"}

=============================================================================
